---- MODULE Spec2Model ----
(***************************************************************************)
(* The translation subsystem of statementdb (models.py) and the admin's    *)
(* save_model (admin.py).                                                   *)
(*                                                                          *)
(* The relational store is the three tables the code writes: Translatable,  *)
(* ShortTranslation and LongTranslation (the two children of Translation,   *)
(* which share the parent's primary-key sequence), plus Statement.  A text  *)
(* is a TLA+ string, so len() is Len, slicing is SubSeq and + is \o.        *)
(*                                                                          *)
(* ORM reading used throughout: ShortTranslation({...}).save() and          *)
(* LongTranslation({...}).save() insert one row carrying the dictionary's   *)
(* three values, and Translation.objects ranges over the rows of both       *)
(* children, each answering .translation with its stored text.              *)
(***************************************************************************)
EXTENDS Integers, Sequences, FiniteSets, TLC

VARIABLES
    translatables,      \* Translatable table: the set of primary keys
    shortTranslation,   \* ShortTranslation table: a set of rows
    longTranslation,    \* LongTranslation table: a set of rows
    translationSeq,     \* next primary key of the Translation parent table
    statements,         \* Statement table: rows [id, language, content]
    lastOp,             \* the call that was executed last, with its result
    lastSave,           \* the save_model call that was executed last
    pc,                 \* position of each concurrent caller
    args,               \* arguments of each concurrent set_translation call
    rd                  \* the concurrent reader's locals in Translation.get

vars == <<translatables, shortTranslation, longTranslation, translationSeq,
          statements, lastOp, lastSave, pc, args, rd>>

storeVars == <<translatables, shortTranslation, longTranslation, translationSeq>>

(***************************************************************************)
(* Program constants.                                                       *)
(***************************************************************************)
LANGUAGES == {"de_de", "en_US"}

LOCALE == "de_de"

TRUNCATE_AT_LENGTH == 60

MAX_LENGTH == 100

(***************************************************************************)
(* Bounds of the model and the inputs drawn from them.                      *)
(***************************************************************************)
MaxTranslatables == 2

MaxInserts == 2

MaxStatements == 2

RECURSIVE Rep(_, _)
Rep(c, n) == IF n = 0 THEN "" ELSE c \o Rep(c, n - 1)

\* Lengths on both sides of the display width and of the storage threshold.
TextLens == {0, 61, 100, 101, 102}

Texts == {Rep("a", n) : n \in TextLens}

\* Language codes a caller may pass: the supported ones and one that is not.
LanguageCodes == LANGUAGES \cup {"fr_FR"}

Writers == {"w1", "w2"}

Reader == "r"

(***************************************************************************)
(* Values a call returns: Python's None, a string, or a raised exception.   *)
(***************************************************************************)
NoneVal == [tag |-> "None", val |-> ""]

Some(s) == [tag |-> "value", val |-> s]

Raised(e) == [tag |-> e, val |-> ""]

\* Python truthiness of an optional string: None and '' are both false.
Truthy(x) == x.tag = "value" /\ x.val # ""

(***************************************************************************)
(* Pure helpers.                                                            *)
(***************************************************************************)
truncate(s, length) ==
    IF Len(s) > length THEN SubSeq(s, 1, length) \o ".." ELSE s

Row(pk, f, language, translation) ==
    [id |-> pk, translatable |-> f, language |-> language,
     translation |-> translation]

\* objects.filter(translatable=f, language=language)
Filter(table, f, language) ==
    {r \in table : r.translatable = f /\ r.language = language}

\* QuerySet.update(translation=translation)
UpdateNothing(table, f, language, translation) == table

Update(table, f, language, translation) ==
    {IF r.translatable = f /\ r.language = language
        THEN [r EXCEPT !.translation = translation]
        ELSE r : r \in table}

\* QuerySet.delete()
DeleteNothing(table, f, language) == table

Delete(table, f, language) == table \ Filter(table, f, language)

\* Model(...).save() of a new row
Insert(table, pk, f, language, translation) ==
    table \cup {Row(pk, f, language, translation)}

\* len(translation) <= ShortTranslation.MAX_LENGTH
IsShortStrict(translation) == Len(translation) < MAX_LENGTH

IsShort(translation) == Len(translation) <= MAX_LENGTH

\* QuerySet.first(): the row with the lowest primary key
First(rows) == CHOOSE r \in rows : \A q \in rows : r.id <= q.id

DB == [short |-> shortTranslation, long |-> longTranslation,
       seq |-> translationSeq]

EmptyDB == [short |-> {}, long |-> {}, seq |-> 1]

(***************************************************************************)
(* Translatable.with_translation: the translation part (lines 49-54).       *)
(***************************************************************************)
with_translation(db, f, language, translation) ==
    IF IsShort(translation)
        THEN [db EXCEPT !.short = Insert(db.short, db.seq, f, language, translation),
                        !.seq = db.seq + 1]
        ELSE [db EXCEPT !.long = Insert(db.long, db.seq, f, language, translation),
                        !.seq = db.seq + 1]

(***************************************************************************)
(* Translatable.set_translation.                                            *)
(***************************************************************************)
set_translation_always_insert(db, f, language, translation) ==
    IF IsShort(translation)
        THEN [short |-> Insert(db.short, db.seq, f, language, translation),
              long  |-> Delete(db.long, f, language),
              seq   |-> db.seq + 1]
        ELSE [short |-> Delete(db.short, f, language),
              long  |-> Insert(db.long, db.seq, f, language, translation),
              seq   |-> db.seq + 1]

set_translation(db, f, language, translation) ==
    IF IsShort(translation)
        THEN IF Filter(db.short, f, language) # {}
                THEN [db EXCEPT !.short = Update(db.short, f, language, translation)]
                ELSE [short |-> Insert(db.short, db.seq, f, language, translation),
                      long  |-> Delete(db.long, f, language),
                      seq   |-> db.seq + 1]
        ELSE IF Filter(db.long, f, language) # {}
                THEN [db EXCEPT !.long = Update(db.long, f, language, translation)]
                ELSE [short |-> Delete(db.short, f, language),
                      long  |-> Insert(db.long, db.seq, f, language, translation),
                      seq   |-> db.seq + 1]

(***************************************************************************)
(* Translation.get and Translatable.__str__.                                *)
(***************************************************************************)
get_any_language(db, f) ==
    LET r == {x \in db.short \cup db.long : x.translatable = f}
    IN  IF r # {} THEN Some(First(r).translation) ELSE NoneVal

get(db, f) ==
    LET r == Filter(db.short \cup db.long, f, LOCALE)
    IN  IF r # {} THEN Some(First(r).translation) ELSE NoneVal

str(db, f) ==
    LET translation == get(db, f)
    IN  IF Truthy(translation)
            THEN truncate(translation.val, TRUNCATE_AT_LENGTH)
            ELSE "Unused translatable."

\* Which representation holds (f, language): recorded with each write.
Held(db, f, language) ==
    IF Filter(db.short, f, language) # {} /\ Filter(db.long, f, language) # {}
        THEN "both"
    ELSE IF Filter(db.short, f, language) # {} THEN "short"
    ELSE IF Filter(db.long, f, language) # {} THEN "long"
    ELSE "none"

Count(db, f, language) ==
    Cardinality(Filter(db.short, f, language))
        + Cardinality(Filter(db.long, f, language))

(***************************************************************************)
(* Initial state: empty tables, nobody running.                             *)
(***************************************************************************)
NoOp == [op |-> "none", translatable |-> 0, language |-> "", translation |-> "",
         before |-> "none", ret |-> NoneVal]

NoSave == [change |-> FALSE, statement |-> 0, changed_data |-> {},
           language |-> "", orig_content |-> "", content |-> 0]

NoArgs == [translatable |-> 0, language |-> "", translation |-> ""]

NoRead == [translatable |-> 0, exists |-> FALSE, ret |-> NoneVal]

Idle ==
    /\ pc = [p \in Writers \cup {Reader} |-> "idle"]
    /\ args = [w \in Writers |-> NoArgs]
    /\ rd = NoRead

Init ==
    /\ translatables = {}
    /\ shortTranslation = {}
    /\ longTranslation = {}
    /\ translationSeq = 1
    /\ statements = {}
    /\ lastOp = NoOp
    /\ lastSave = NoSave
    /\ Idle

(***************************************************************************)
(* Calls executed one at a time.                                            *)
(***************************************************************************)
SetDB(db) ==
    /\ shortTranslation' = db.short
    /\ longTranslation' = db.long
    /\ translationSeq' = db.seq

WithTranslation(language, translation) ==
    /\ Cardinality(translatables) < MaxTranslatables
    /\ translationSeq <= MaxInserts
    /\ LET translatable == Cardinality(translatables) + 1
       IN  /\ translatables' = translatables \cup {translatable}
           /\ SetDB(with_translation(DB, translatable, language, translation))
           /\ lastOp' = [op |-> "with_translation", translatable |-> translatable,
                         language |-> language, translation |-> translation,
                         before |-> "none", ret |-> NoneVal]
    /\ UNCHANGED <<statements, lastSave, pc, args, rd>>

SetTranslation(f, language, translation) ==
    /\ f \in translatables
    /\ set_translation(DB, f, language, translation).seq <= MaxInserts + 1
    /\ SetDB(set_translation(DB, f, language, translation))
    /\ lastOp' = [op |-> "set_translation", translatable |-> f,
                  language |-> language, translation |-> translation,
                  before |-> Held(DB, f, language), ret |-> NoneVal]
    /\ UNCHANGED <<translatables, statements, lastSave, pc, args, rd>>

Get(f) ==
    /\ f \in translatables
    /\ lastOp' = [op |-> "get", translatable |-> f, language |-> LOCALE,
                  translation |-> "", before |-> Held(DB, f, LOCALE),
                  ret |-> get(DB, f)]
    /\ UNCHANGED <<storeVars, statements, lastSave, pc, args, rd>>

Str(f) ==
    /\ f \in translatables
    /\ lastOp' = [op |-> "str", translatable |-> f, language |-> LOCALE,
                  translation |-> "", before |-> Held(DB, f, LOCALE),
                  ret |-> Some(str(DB, f))]
    /\ UNCHANGED <<storeVars, statements, lastSave, pc, args, rd>>

Next ==
    \/ \E language \in LanguageCodes, translation \in Texts :
          WithTranslation(language, translation)
    \/ \E f \in translatables, language \in LanguageCodes, translation \in Texts :
          SetTranslation(f, language, translation)
    \/ \E f \in translatables : Get(f)
    \/ \E f \in translatables : Str(f)

Spec == Init /\ [][Next]_vars

(***************************************************************************)
(* The admin's editing workflow: StatementAdmin.save_model.                 *)
(*                                                                          *)
(* The form is a ModelForm of Statement without 'content' and with the      *)
(* extra field 'orig_content'; changed_data lists names of the form's       *)
(* fields.  The form has been validated before save_model runs, so its      *)
(* language is one of LANGUAGES and orig_content is not empty.              *)
(***************************************************************************)
FormFields == {"player", "language", "date", "time", "location", "context",
               "references", "orig_content"}

ChangedData == SUBSET {"language", "date", "orig_content"}

FormTexts == Texts \ {""}

SaveModel(change, statement, changed_data, language, orig_content) ==
    /\ changed_data \subseteq FormFields
    /\ IF ~change
          THEN /\ Cardinality(statements) < MaxStatements
               /\ Cardinality(translatables) < MaxTranslatables
               /\ translationSeq <= MaxInserts
               /\ LET content == Cardinality(translatables) + 1
                  IN  /\ translatables' = translatables \cup {content}
                      /\ SetDB(with_translation(DB, content, language, orig_content))
                      /\ statements' = statements \cup
                            {[id |-> Cardinality(statements) + 1,
                              language |-> language, content |-> content]}
                      /\ lastSave' = [change |-> change, statement |-> Cardinality(statements) + 1,
                                      changed_data |-> changed_data, language |-> language,
                                      orig_content |-> orig_content, content |-> content]
          ELSE /\ statement \in statements
               /\ IF "content" \in changed_data
                     THEN /\ set_translation(DB, statement.content, language,
                                             orig_content).seq <= MaxInserts + 1
                          /\ SetDB(set_translation(DB, statement.content, language,
                                                   orig_content))
                     ELSE UNCHANGED <<shortTranslation, longTranslation, translationSeq>>
               /\ UNCHANGED translatables
               /\ statements' = (statements \ {statement}) \cup
                                    {[statement EXCEPT !.language = language]}
               /\ lastSave' = [change |-> change, statement |-> statement.id,
                               changed_data |-> changed_data, language |-> language,
                               orig_content |-> orig_content,
                               content |-> statement.content]
    /\ UNCHANGED <<lastOp, pc, args, rd>>

NoStatement == [id |-> 0, language |-> "", content |-> 0]

NextAdmin ==
    \/ \E changed_data \in ChangedData, language \in LANGUAGES, orig_content \in FormTexts :
          SaveModel(FALSE, NoStatement, changed_data, language, orig_content)
    \/ \E statement \in statements, changed_data \in ChangedData, language \in LANGUAGES,
          orig_content \in FormTexts :
          SaveModel(TRUE, statement, changed_data, language, orig_content)

SpecAdmin == Init /\ [][NextAdmin]_vars

(***************************************************************************)
(* Concurrent callers.  Every query the code issues (exists, update,        *)
(* delete, the INSERT of save, first) is one atomic step of the store; the  *)
(* code opens no transaction around them.  Two callers run set_translation  *)
(* once each and a reader runs Translation.get repeatedly, on a store that  *)
(* with_translation(LOCALE, t) has populated.                               *)
(***************************************************************************)
InitConc ==
    \E translation \in Texts :
        LET db == with_translation(EmptyDB, 1, LOCALE, translation)
        IN  /\ translatables = {1}
            /\ shortTranslation = db.short
            /\ longTranslation = db.long
            /\ translationSeq = db.seq
            /\ statements = {}
            /\ lastOp = [op |-> "with_translation", translatable |-> 1,
                         language |-> LOCALE, translation |-> translation,
                         before |-> "none", ret |-> NoneVal]
            /\ lastSave = NoSave
            /\ Idle

\* lines 66-69 and 78-79: pick the table by length, then t.exists()
WriterExists(w, f, language, translation) ==
    /\ pc[w] = "idle"
    /\ f \in translatables
    /\ args' = [args EXCEPT ![w] = [translatable |-> f, language |-> language,
                                    translation |-> translation]]
    /\ LET t == Filter(IF IsShort(translation) THEN shortTranslation
                                               ELSE longTranslation, f, language)
       IN  pc' = [pc EXCEPT ![w] = IF t # {} THEN "update" ELSE "delete"]
    /\ UNCHANGED <<storeVars, statements, lastOp, lastSave, rd>>

\* lines 70 and 80: t.update(translation=translation)
WriterUpdate(w) ==
    /\ pc[w] = "update"
    /\ LET a == args[w]
       IN  IF IsShort(a.translation)
              THEN /\ shortTranslation' = Update(shortTranslation, a.translatable,
                                                 a.language, a.translation)
                   /\ UNCHANGED longTranslation
              ELSE /\ longTranslation' = Update(longTranslation, a.translatable,
                                                a.language, a.translation)
                   /\ UNCHANGED shortTranslation
    /\ pc' = [pc EXCEPT ![w] = "done"]
    /\ UNCHANGED <<translatables, translationSeq, statements, lastOp, lastSave, args, rd>>

\* lines 72 and 82: delete the rows of the other representation
WriterDelete(w) ==
    /\ pc[w] = "delete"
    /\ LET a == args[w]
       IN  IF IsShort(a.translation)
              THEN /\ longTranslation' = Delete(longTranslation, a.translatable, a.language)
                   /\ UNCHANGED shortTranslation
              ELSE /\ shortTranslation' = Delete(shortTranslation, a.translatable, a.language)
                   /\ UNCHANGED longTranslation
    /\ pc' = [pc EXCEPT ![w] = "save"]
    /\ UNCHANGED <<translatables, translationSeq, statements, lastOp, lastSave, args, rd>>

\* lines 73-75 and 83-85: save a new row of the target representation
WriterSave(w) ==
    /\ pc[w] = "save"
    /\ LET a == args[w]
       IN  IF IsShort(a.translation)
              THEN /\ shortTranslation' = Insert(shortTranslation, translationSeq,
                                                 a.translatable, a.language, a.translation)
                   /\ UNCHANGED longTranslation
              ELSE /\ longTranslation' = Insert(longTranslation, translationSeq,
                                                a.translatable, a.language, a.translation)
                   /\ UNCHANGED shortTranslation
    /\ translationSeq' = translationSeq + 1
    /\ pc' = [pc EXCEPT ![w] = "done"]
    /\ UNCHANGED <<translatables, statements, lastOp, lastSave, args, rd>>

\* line 106: r.exists(); None is returned when it answers no
ReaderExists(f) ==
    /\ pc[Reader] \in {"idle", "returned"}
    /\ f \in translatables
    /\ LET exists == Filter(shortTranslation \cup longTranslation, f, LOCALE) # {}
       IN  /\ rd' = [translatable |-> f, exists |-> exists, ret |-> NoneVal]
           /\ pc' = [pc EXCEPT ![Reader] = IF exists THEN "first" ELSE "returned"]
    /\ UNCHANGED <<storeVars, statements, lastOp, lastSave, args>>

\* line 106: r.first().translation; first() answers None when the rows are gone
ReaderFirst ==
    /\ pc[Reader] = "first"
    /\ LET r == Filter(shortTranslation \cup longTranslation, rd.translatable, LOCALE)
       IN  rd' = [rd EXCEPT !.ret = IF r # {} THEN Some(First(r).translation)
                                             ELSE Raised("AttributeError")]
    /\ pc' = [pc EXCEPT ![Reader] = "returned"]
    /\ UNCHANGED <<storeVars, statements, lastOp, lastSave, args>>

NextConc ==
    \/ \E w \in Writers, f \in translatables, language \in LANGUAGES, translation \in Texts :
          WriterExists(w, f, language, translation)
    \/ \E w \in Writers : WriterUpdate(w)
    \/ \E w \in Writers : WriterDelete(w)
    \/ \E w \in Writers : WriterSave(w)
    \/ \E f \in translatables : ReaderExists(f)
    \/ ReaderFirst

SpecConc == InitConc /\ [][NextConc]_vars

(***************************************************************************)
(* Properties.                                                              *)
(***************************************************************************)
Writes == {"with_translation", "set_translation"}

\* The one row stored for (f, language) is in `table`, with this text.
OnlyRow(table, f, language, translation) ==
    \E r \in table : /\ Filter(table, f, language) = {r}
                     /\ r.translation = translation

\* C1: with calls executed one at a time, every (Translatable, language) pair
\* holds at most one row over both tables after every call, a pair that holds
\* one row keeps one, and the pair a create or set call names holds exactly one.
C1_OneRowPerPair ==
    [][\A f \in translatables', language \in LanguageCodes :
          /\ Count(DB', f, language) <= 1
          /\ Count(DB, f, language) = 1 => Count(DB', f, language) = 1
          /\ (/\ lastOp'.op \in Writes
              /\ lastOp'.translatable = f
              /\ lastOp'.language = language) => Count(DB', f, language) = 1]_vars

C1_Witness ==
    /\ lastOp.op = "set_translation"
    /\ lastOp.before = "short"
    /\ Len(lastOp.translation) > MAX_LENGTH
    /\ Count(DB, lastOp.translatable, lastOp.language) = 1

C3_MigrationClean ==
    lastOp.op = "set_translation" =>
        LET f == lastOp.translatable
            l == lastOp.language
            t == lastOp.translation
        IN  IF Len(t) <= MAX_LENGTH
               THEN /\ OnlyRow(shortTranslation, f, l, t)
                    /\ Filter(longTranslation, f, l) = {}
               ELSE /\ OnlyRow(longTranslation, f, l, t)
                    /\ Filter(shortTranslation, f, l) = {}

C3_Witness ==
    /\ lastOp.op = "set_translation"
    /\ lastOp.before = "long"
    /\ Len(lastOp.translation) = MAX_LENGTH
    /\ Held(DB, lastOp.translatable, lastOp.language) = "short"

\* C4: a create or set call with a language code outside LANGUAGES raises
\* InvalidLanguage and leaves every table as it was.
C4_InvalidLanguageRejected ==
    [][(lastOp'.op \in Writes /\ lastOp'.language \notin LANGUAGES)
          => /\ lastOp'.ret = Raised("InvalidLanguage")
             /\ UNCHANGED storeVars]_vars

\* C5: while a single set_translation call is in progress on a populated pair,
\* the store never holds both a short and a long row of the pair, and a reader
\* whose exists() query runs between the writer's queries finds a row.
C5_AtomicMigration ==
    Cardinality({w \in Writers : pc[w] # "idle"}) <= 1 =>
        /\ \A f \in translatables : Held(DB, f, LOCALE) # "both"
        /\ pc[Reader] # "idle" => rd.exists

\* C6: applying set_translation(f, L, T) again to the store a call
\* set_translation(f, L, T) has just left changes nothing.
C6_Idempotent ==
    lastOp.op = "set_translation" =>
        set_translation(DB, lastOp.translatable, lastOp.language,
                        lastOp.translation) = DB

C6_Witness ==
    /\ lastOp.op = "set_translation"
    /\ lastOp.before = "none"
    /\ lastOp.language = "en_US"
    /\ Held(DB, lastOp.translatable, lastOp.language) = "long"

\* C7: Translation.get(f) changes no table; it returns the text of the row of
\* (f, LOCALE) when there is one and None when there is none, also when f has
\* rows in other languages.
C7_NoFallback ==
    [][lastOp'.op = "get" =>
          LET r == Filter(shortTranslation \cup longTranslation,
                          lastOp'.translatable, LOCALE)
          IN  /\ UNCHANGED <<storeVars, statements>>
              /\ r = {} => lastOp'.ret = NoneVal
              /\ r # {} => \E x \in r : lastOp'.ret = Some(x.translation)]_vars

C7_Witness ==
    /\ lastOp.op = "get"
    /\ lastOp.ret = NoneVal
    /\ \E x \in shortTranslation \cup longTranslation :
          x.translatable = lastOp.translatable /\ x.language = "en_US"

\* C8: __str__ returns the sentinel exactly when Translation.get returns None;
\* a stored empty string is rendered as the empty string.
C8_SentinelIffAbsent ==
    lastOp.op = "str" =>
        (lastOp.ret = Some("Unused translatable.")
            <=> get(DB, lastOp.translatable) = NoneVal)

\* C9: save_model of a new statement creates its translatable with the form's
\* language and text; of an existing statement whose text was changed in the
\* form, sets the translation, so that the stored text equals the entered one;
\* of an existing statement whose text was not changed, writes no translation.
C9_EditingWorkflow ==
    [][LET s == lastSave'
           changed == "orig_content" \in s.changed_data
       IN  /\ ~s.change =>
                 /\ s.content \notin translatables
                 /\ DB' = with_translation(DB, s.content, s.language, s.orig_content)
           /\ (s.change /\ changed) =>
                 /\ DB' = set_translation(DB, s.content, s.language, s.orig_content)
                 /\ \/ OnlyRow(shortTranslation', s.content, s.language, s.orig_content)
                    \/ OnlyRow(longTranslation', s.content, s.language, s.orig_content)
           /\ (s.change /\ ~changed) => DB' = DB]_vars

\* C10: once two concurrent set_translation calls for the same
\* (translatable, language) have both completed, the pair holds at most one row.
C10_NoDuplicateRows ==
    (/\ \A w \in Writers : pc[w] = "done"
     /\ args["w1"].translatable = args["w2"].translatable
     /\ args["w1"].language = args["w2"].language)
        => Count(DB, args["w1"].translatable, args["w1"].language) <= 1

====
